---- MODULE Spec2Model ----
(***************************************************************************)
(* The visitor example of 8_SOLID.CPP: the Animal hierarchy (Cat, Dog),    *)
(* the AnimalVisitor interface, LifeSpanVisitor, and exUseVisitor.         *)
(*                                                                         *)
(* A client holds animals through handles of a static type, owns int       *)
(* slots, constructs visitors bound to a slot and calls accept.  The       *)
(* program is single-threaded, so a call of exUseVisitor runs from its     *)
(* first line to its last in one step, on its own locals.                  *)
(* lastCall, observed, init, lastVisited and exTrace record what the calls *)
(* did; the program does not read them.                                    *)
(***************************************************************************)
EXTENDS Integers, Sequences, FiniteSets

VARIABLES handle, slot, visitor, lastCall, observed, init, lastVisited,
          exRuns, exYears, exTrace, out

vars == <<handle, slot, visitor, lastCall, observed, init, lastVisited,
          exRuns, exYears, exTrace, out>>

clientVars == <<handle, slot, visitor, lastCall, observed, init, lastVisited>>
exVars == <<exRuns, exYears, exTrace, out>>

(***************************************************************************)
(* Bounds of the client.                                                   *)
(***************************************************************************)
NumVisitors == 2
MaxRuns == 1

Handles == {"p"}
Slots == {"x", "y"}
Visitors == 1..NumVisitors
InitValues == {-1, 10}

(***************************************************************************)
(* The class hierarchy.                                                    *)
(***************************************************************************)
Kinds == {"Cat", "Dog"}

StaticTypes == {"Animal"} \cup Kinds

VisitorClasses == {"AnimalVisitor", "LifeSpanVisitor"}

\* the pure virtual handlers AnimalVisitor declares
DeclaredHandlers == {"visit(Cat&)", "visit(Dog&)"}

\* the parameter type of a handler
HandlerParam(h) ==
    CASE h = "visit(Cat&)" -> "Cat"
      [] h = "visit(Dog&)" -> "Dog"

\* a LifeSpanVisitor that forgot the Dog handler
OverridesNoDog(class) ==
    IF class = "LifeSpanVisitor" THEN {"visit(Cat&)"} ELSE {}

\* the handlers a visitor class gives a body to
Overrides(class) ==
    IF class = "LifeSpanVisitor" THEN {"visit(Cat&)", "visit(Dog&)"} ELSE {}

\* every class taken for concrete
IsAbstractNever(class) == FALSE

\* a class with a pure virtual handler left without a body cannot be
\* instantiated
IsAbstract(class) == DeclaredHandlers \ Overrides(class) # {}

CatYears == 10
DogYears == 13

NoAnimal == [static |-> "none", kind |-> "none"]
NoVisitor == [class |-> "none", i |-> "none"]
NoCall == [kind |-> "none", class |-> "none", i |-> "none",
           handlers |-> <<>>, writes |-> <<>>]

(***************************************************************************)
(* accept: virtual dispatch on the animal, overload resolution on the      *)
(* static type of *this, virtual dispatch on the visitor.                  *)
(***************************************************************************)
\* accept bound to the type the animal is held through
StaticAccept(static, kind) ==
    CASE static = "Cat" -> "Cat::accept"
      [] static = "Dog" -> "Dog::accept"
      [] OTHER -> "Animal::accept"

\* accept is virtual: the override of the object's own class runs
VirtualAccept(static, kind) ==
    CASE kind = "Cat" -> "Cat::accept"
      [] kind = "Dog" -> "Dog::accept"

\* Dog::accept passing a Cat
ThisTypeAllCat(body) == "Cat"

\* the type of *this inside an override of accept
ThisType(body) ==
    CASE body = "Cat::accept" -> "Cat"
      [] body = "Dog::accept" -> "Dog"

\* overload resolution of av.visit(arg) on AnimalVisitor
Overload(argType) ==
    CHOOSE h \in DeclaredHandlers : HandlerParam(h) = argType

\* the visitor handlers a body of accept calls, in order
AcceptBody(body) ==
    IF body = "Animal::accept" THEN <<>> ELSE <<Overload(ThisType(body))>>

(***************************************************************************)
(* LifeSpanVisitor.  A memory is the ints by name, with the log of the     *)
(* writes made to them.                                                    *)
(***************************************************************************)
\* ref = v
Store(mem, ref, v) ==
    [val |-> [mem.val EXCEPT ![ref] = v],
     log |-> Append(mem.log, [ref |-> ref, val |-> v])]

\* both handlers write the Dog value
LifeSpanVisitBothDog(handler, i, mem) == Store(mem, i, DogYears)

\* the member i is an int, not an int&: the Dog handler writes its own copy
LifeSpanVisitDogCopy(handler, i, mem) ==
    IF handler = "visit(Cat&)" THEN Store(mem, i, CatYears) ELSE mem

\* i += instead of i =
LifeSpanVisitAdd(handler, i, mem) ==
    CASE handler = "visit(Cat&)" -> Store(mem, i, mem.val[i] + CatYears)
      [] handler = "visit(Dog&)" -> Store(mem, i, mem.val[i] + DogYears)

\* the Cat handler writes only when it raises i
LifeSpanVisitRaise(handler, i, mem) ==
    CASE handler = "visit(Cat&)" ->
            IF mem.val[i] < CatYears THEN Store(mem, i, CatYears) ELSE mem
      [] handler = "visit(Dog&)" -> Store(mem, i, DogYears)

\* the handlers write an int other than the one i refers to, when there is one
LifeSpanVisitOther(handler, i, mem) ==
    LET others == DOMAIN mem.val \ {i}
        r == IF others = {} THEN i ELSE CHOOSE o \in others : TRUE
    IN  CASE handler = "visit(Cat&)" -> Store(mem, r, CatYears)
          [] handler = "visit(Dog&)" -> Store(mem, r, DogYears)

\* the Cat handler left empty
LifeSpanVisitCatEmpty(handler, i, mem) ==
    IF handler = "visit(Dog&)" THEN Store(mem, i, DogYears) ELSE mem

\* LifeSpanVisitor::visit(Cat&) and visit(Dog&), i the int the visitor refers to
LifeSpanVisit(handler, i, mem) ==
    CASE handler = "visit(Cat&)" -> Store(mem, i, CatYears)
      [] handler = "visit(Dog&)" -> Store(mem, i, DogYears)

\* av.visit(...) is virtual: the body of the visitor's own class runs
VisitImpl(class, handler, i, mem) ==
    IF handler \in Overrides(class) THEN LifeSpanVisit(handler, i, mem) ELSE mem

RECURSIVE VisitAll(_, _, _, _)
\* the handlers hs, called in order
VisitAll(class, hs, i, mem) ==
    IF hs = <<>> THEN mem
    ELSE VisitAll(class, Tail(hs), i, VisitImpl(class, Head(hs), i, mem))

\* one call  animal.accept(visitor)  in memory vals
AcceptCall(static, kind, class, i, vals) ==
    LET hs == AcceptBody(VirtualAccept(static, kind))
        mem == VisitAll(class, hs, i, [val |-> vals, log |-> <<>>])
    IN  [kind |-> kind, static |-> static, class |-> class, i |-> i,
         handlers |-> hs, writes |-> mem.log, val |-> mem.val]

(***************************************************************************)
(* The client.                                                             *)
(***************************************************************************)
\* make_unique<K>() held through a pointer to static type t
MakeUnique(h, k, t) ==
    /\ handle[h] = NoAnimal
    /\ t \in {"Animal", k}
    /\ handle' = [handle EXCEPT ![h] = [static |-> t, kind |-> k]]
    /\ UNCHANGED <<slot, visitor, lastCall, observed, init, lastVisited>>
    /\ UNCHANGED exVars

\* the owner releases the animal
Release(h) ==
    /\ handle[h] # NoAnimal
    /\ handle' = [handle EXCEPT ![h] = NoAnimal]
    /\ UNCHANGED <<slot, visitor, lastCall, observed, init, lastVisited>>
    /\ UNCHANGED exVars

\* an object of visitor class c, bound to slot s
ConstructVisitor(v, c, s) ==
    /\ visitor[v] = NoVisitor
    /\ ~IsAbstract(c)
    /\ visitor' = [visitor EXCEPT ![v] = [class |-> c, i |-> s]]
    /\ UNCHANGED <<handle, slot, lastCall, observed, init, lastVisited>>
    /\ UNCHANGED exVars

\* the visitor goes out of scope
DestroyVisitor(v) ==
    /\ visitor[v] # NoVisitor
    /\ visitor' = [visitor EXCEPT ![v] = NoVisitor]
    /\ UNCHANGED <<handle, slot, lastCall, observed, init, lastVisited>>
    /\ UNCHANGED exVars

\* handle h ->accept(visitor v)
Accept(h, v) ==
    /\ handle[h] # NoAnimal
    /\ visitor[v] # NoVisitor
    /\ LET call == AcceptCall(handle[h].static, handle[h].kind,
                              visitor[v].class, visitor[v].i, slot)
       IN  /\ slot' = call.val
           /\ lastCall' = [kind |-> call.kind, class |-> call.class, i |-> call.i,
                           handlers |-> call.handlers, writes |-> call.writes]
           /\ observed' = observed \cup
                  {[kind |-> call.kind, static |-> call.static,
                    handlers |-> call.handlers, result |-> call.val[call.i]]}
           /\ lastVisited' = [lastVisited EXCEPT ![call.i] = call.kind]
    /\ UNCHANGED <<handle, visitor, init>>
    /\ UNCHANGED exVars

(***************************************************************************)
(* exUseVisitor.                                                           *)
(***************************************************************************)
Digits == <<"0", "1", "2", "3", "4", "5", "6", "7", "8", "9">>

RECURSIVE ToDecimal(_)
\* operator<<(int): the characters of n in decimal
ToDecimal(n) ==
    IF n < 0 THEN <<"-">> \o ToDecimal(-n)
    ELSE IF n < 10 THEN <<Digits[n + 1]>>
    ELSE ToDecimal(n \div 10) \o <<Digits[(n % 10) + 1]>>

Lives == <<"l", "i", "v", "e", "s", " ">>

\* the writes of a call, as events
WriteEvents(ws) ==
    [n \in 1..Len(ws) |-> [ev |-> "write", ref |-> ws[n].ref, chars |-> ToDecimal(ws[n].val)]]

ExUseVisitor ==
    /\ exRuns < MaxRuns
    /\ LET years0 == 10                                          \* int years{10};
           a == [static |-> "Animal", kind |-> "Cat"]            \* unique_ptr<Animal> a = make_unique<Cat>();
           call == AcceptCall(a.static, a.kind, "LifeSpanVisitor", "years",
                              [n \in {"years"} |-> years0])      \* a->accept(LifeSpanVisitor(years));
           years1 == call.val["years"]
           printed == <<Lives, ToDecimal(years1)>>               \* std::cout << "lives " << years;
       IN  /\ exYears' = <<years1>>
           /\ exTrace' = WriteEvents(call.writes) \o
                  [n \in 1..2 |-> [ev |-> "print", ref |-> "cout", chars |-> printed[n]]]
           /\ out' = out \o printed[1] \o printed[2]
    /\ exRuns' = exRuns + 1
    /\ UNCHANGED clientVars

Init ==
    /\ handle = [h \in Handles |-> NoAnimal]
    /\ slot \in [Slots -> InitValues]
    /\ init = slot
    /\ visitor = [v \in Visitors |-> NoVisitor]
    /\ lastCall = NoCall
    /\ observed = {}
    /\ lastVisited = [s \in Slots |-> "none"]
    /\ exRuns = 0
    /\ exYears = <<>>
    /\ exTrace = <<>>
    /\ out = <<>>

Next ==
    \/ \E h \in Handles, k \in Kinds, t \in StaticTypes : MakeUnique(h, k, t)
    \/ \E h \in Handles : Release(h)
    \/ \E v \in Visitors, c \in VisitorClasses, s \in Slots : ConstructVisitor(v, c, s)
    \/ \E v \in Visitors : DestroyVisitor(v)
    \/ \E h \in Handles, v \in Visitors : Accept(h, v)
    \/ ExUseVisitor

Spec == Init /\ [][Next]_vars

(***************************************************************************)
(* The claims.                                                             *)
(***************************************************************************)

\* C1: accept on a variant of kind K invokes exactly one visitor handler,
\* the one for K (visit(Cat&) for a Cat, visit(Dog&) for a Dog), and never
\* the handler of the other kind.
C1_AcceptInvokesOwnHandler ==
    lastCall # NoCall =>
        /\ Len(lastCall.handlers) = 1
        /\ lastCall.kind = "Cat" => lastCall.handlers[1] = "visit(Cat&)"
        /\ lastCall.kind = "Dog" => lastCall.handlers[1] = "visit(Dog&)"

C1_Witness ==
    /\ lastCall.kind = "Dog"
    /\ lastCall.handlers = <<"visit(Dog&)">>
    /\ \E o \in observed : o.kind = "Cat" /\ o.handlers = <<"visit(Cat&)">>

\* C2: after accept with a LifeSpanVisitor bound to slot i, i is 10 when the
\* variant is a Cat and 13 when it is a Dog, whatever i held before.
C2_SlotHoldsLifeSpan ==
    lastCall # NoCall =>
        slot[lastCall.i] = (IF lastCall.kind = "Cat" THEN 10 ELSE 13)

C2_Witness ==
    /\ lastCall.kind = "Dog"
    /\ init[lastCall.i] = -1
    /\ slot[lastCall.i] = 13
    /\ \E o \in observed : o.kind = "Cat" /\ o.result = 10

\* C3: a variant held through the base type Animal dispatches to the handler
\* of its runtime kind: the handlers a call runs depend on the kind the
\* object was made with, not on the type it is held through.
C3_DispatchIgnoresStaticType ==
    /\ \A o1, o2 \in observed : o1.kind = o2.kind => o1.handlers = o2.handlers
    /\ \A o \in observed :
          o.static = "Animal" =>
              o.handlers = <<IF o.kind = "Cat" THEN "visit(Cat&)" ELSE "visit(Dog&)">>

C3_Witness ==
    \A k \in Kinds :
        \E o1, o2 \in observed :
            /\ o1.kind = k /\ o1.static = "Animal"
            /\ o2.kind = k /\ o2.static = k
            /\ o1.handlers = o2.handlers

\* C4: each accept with a LifeSpanVisitor writes the visitor's slot exactly
\* once, for a Cat and for a Dog.
C4_OneWritePerCall ==
    lastCall # NoCall =>
        /\ Len(lastCall.writes) = 1
        /\ lastCall.writes[1].ref = lastCall.i

C4_Witness ==
    /\ lastCall.kind = "Dog"
    /\ Len(lastCall.writes) = 1
    /\ lastVisited[CHOOSE s \in Slots : s # lastCall.i] = "Cat"

\* C5: two accept calls on variants of the same kind with LifeSpanVisitors
\* give the same output value.
C5_SameKindSameOutput ==
    \A o1, o2 \in observed : o1.kind = o2.kind => o1.result = o2.result

C5_Witness ==
    \E o1, o2 \in observed :
        /\ o1 # o2
        /\ o1.kind = o2.kind
        /\ o1.result = o2.result
        /\ \E s \in Slots : init[s] # o1.result

\* C6: no visitor object exists whose class lacks a handler for Cat or Dog,
\* and no accept call selected a handler the visitor's class has no body for.
C6_NoVisitorLacksHandler ==
    /\ \A v \in Visitors :
          visitor[v] # NoVisitor => DeclaredHandlers \subseteq Overrides(visitor[v].class)
    /\ lastCall # NoCall =>
          \A n \in 1..Len(lastCall.handlers) :
              lastCall.handlers[n] \in Overrides(lastCall.class)

C6_Witness ==
    /\ lastCall # NoCall
    /\ \E v \in Visitors : visitor[v] = NoVisitor
    /\ \E v \in Visitors : visitor[v] # NoVisitor
    /\ DeclaredHandlers \ Overrides("AnimalVisitor") # {}

\* C7: the kinds and the visit handlers correspond one to one: AnimalVisitor
\* declares, and every concrete visitor class implements, exactly one
\* handler for each of Cat and Dog, and no handler for anything else.
C7_KindsMatchHandlers ==
    /\ \A k \in Kinds : Cardinality({h \in DeclaredHandlers : HandlerParam(h) = k}) = 1
    /\ \A h \in DeclaredHandlers : HandlerParam(h) \in Kinds
    /\ \A k \in Kinds :
          Cardinality({h \in Overrides("LifeSpanVisitor") : HandlerParam(h) = k}) = 1
    /\ \A h \in Overrides("LifeSpanVisitor") : HandlerParam(h) \in Kinds
    /\ \A v \in Visitors :
          visitor[v] # NoVisitor =>
              \A k \in Kinds :
                  Cardinality({h \in Overrides(visitor[v].class) : HandlerParam(h) = k}) = 1
    /\ \A h \in Handles : handle[h] # NoAnimal => handle[h].kind \in Kinds

C7_Witness ==
    /\ \E v \in Visitors : visitor[v].class = "LifeSpanVisitor"
    /\ \E h \in Handles : handle[h].kind = "Dog"
    /\ {o.kind : o \in observed} = Kinds

\* C8: exUseVisitor ends with years = 10, written by the Cat handler before
\* anything is printed, and prints "lives " followed by 10.
C8_ExUseVisitorPrintsTen ==
    exRuns > 0 =>
        /\ exYears = <<10>>
        /\ exTrace = <<[ev |-> "write", ref |-> "years", chars |-> <<"1", "0">>],
                       [ev |-> "print", ref |-> "cout", chars |-> <<"l", "i", "v", "e", "s", " ">>],
                       [ev |-> "print", ref |-> "cout", chars |-> <<"1", "0">>]>>
        /\ Len(out) = 8 * exRuns
        /\ \A r \in 1..exRuns :
              SubSeq(out, 8 * r - 7, 8 * r) = <<"l", "i", "v", "e", "s", " ", "1", "0">>

C8_Witness ==
    /\ exRuns = 1
    /\ out = <<"l", "i", "v", "e", "s", " ", "1", "0">>
    /\ exTrace[1].ev = "write"

\* C9: after any sequence of accept calls with LifeSpanVisitors bound to a
\* slot, the slot holds the value of the kind visited last (10 for a Cat, 13
\* for a Dog), and its initial value when it was never visited.
C9_SlotFollowsLastVisit ==
    \A s \in Slots :
        /\ lastVisited[s] = "none" => slot[s] = init[s]
        /\ lastVisited[s] = "Cat" => slot[s] = 10
        /\ lastVisited[s] = "Dog" => slot[s] = 13
        /\ slot[s] \in {init[s], 10, 13}

\* a slot that began at -1 was visited as a Dog and, last, as a Cat (the
\* other slot was never visited, so every call went to this one)
C9_Witness ==
    \E s \in Slots :
        /\ init[s] = -1
        /\ lastVisited[s] = "Cat"
        /\ slot[s] = 10
        /\ \A t \in Slots \ {s} : lastVisited[t] = "none"
        /\ \E o \in observed : o.kind = "Dog"

\* C10: an accept call with a LifeSpanVisitor changes no int but the one the
\* visitor was constructed with, and leaves the animals, their owners and
\* the visitors as they were.
C10_AcceptFrame ==
    [][\A h \in Handles, v \in Visitors :
           Accept(h, v) =>
               /\ handle' = handle
               /\ visitor' = visitor
               /\ \A s \in Slots \ {visitor[v].i} : slot'[s] = slot[s]
               /\ exYears' = exYears]_vars

C10_Witness ==
    /\ lastCall # NoCall
    /\ slot[lastCall.i] # init[lastCall.i]
    /\ \E v, w \in Visitors :
          /\ visitor[v] # NoVisitor /\ visitor[v].i = lastCall.i
          /\ visitor[w] # NoVisitor /\ visitor[w].i # lastCall.i
          /\ slot[visitor[w].i] = init[visitor[w].i]
          /\ lastVisited[visitor[w].i] = "none"
    /\ \E h \in Handles : handle[h].kind = lastCall.kind

====
